---- MODULE Spec2Model ----
(***************************************************************************)
(* Model of server.js: the /info and /download handlers of the YouTube     *)
(* download service, the three delivery strategies of /download (audio     *)
(* stream, direct video stream, download-then-merge with ffmpeg) and the   *)
(* temporary files of the merge strategy.                                  *)
(*                                                                         *)
(* Node runs one callback at a time, so each action is one run-to-         *)
(* completion step of the event loop: a handler up to its first await, a   *)
(* promise continuation, or an event listener.                             *)
(*                                                                         *)
(* Text is modelled as a sequence of tokens, each token a run of           *)
(* characters:                                                             *)
(*   "H"    https://www.youtube.com                                        *)
(*   "W"    /watch?v=                                                      *)
(*   "S"    /shorts/                                                       *)
(*   "ID1"  an 11-character video identifier                               *)
(*   "x"    a shorter run of identifier characters [a-zA-Z0-9_-]           *)
(*   "?"    a character outside the identifier class                       *)
(*   "%3F"  the percent-escape of "?"                                      *)
(*   "%"    a malformed percent-escape                                     *)
(*   "undefined"  the text JavaScript prints for the value undefined       *)
(***************************************************************************)
EXTENDS Integers, Sequences, FiniteSets, TLC

\* Number of distinct values Date.now() + "_" + random can take in a run.
MaxUnique == 2

Req == {"r1", "r2"}
Kinds == <<"video", "audio", "output">>
KindSet == {"video", "audio", "output"}
None == <<"none">>

(***************************************************************************)
(* Pure functions                                                          *)
(***************************************************************************)

\* decodeURIComponent throws URIError on a malformed escape.
DecodeThrows(s) == \E i \in 1..Len(s) : s[i] = "%"

\* decodeURIComponent: every escape is replaced by the character it encodes.
decodeURIComponent(s) == [i \in 1..Len(s) |-> IF s[i] = "%3F" THEN "?" ELSE s[i]]

\* The class [a-zA-Z0-9_-] of the shorts regular expression.
IdClass == {"ID1", "x", "undefined"}

\* Positions where /\/shorts\/([a-zA-Z0-9_-]+)/ matches.
ShortsMatches(url) ==
  {i \in 1..Len(url) : url[i] = "S" /\ i < Len(url) /\ url[i + 1] \in IdClass}

\* End of the greedy run of identifier characters that starts at position i.
RECURSIVE RunEnd(_, _)
RunEnd(url, i) ==
  IF i < Len(url) /\ url[i + 1] \in IdClass THEN RunEnd(url, i + 1) ELSE i

\* url.match(...)?.[1]: the first match's capture group, or undefined.
ShortsId(url) ==
  IF ShortsMatches(url) = {} THEN <<"undefined">>
  ELSE LET i == CHOOSE j \in ShortsMatches(url) :
                  \A k \in ShortsMatches(url) : j <= k
       IN SubSeq(url, i + 1, RunEnd(url, i + 1))

normalizeYouTubeUrl(url) ==
  IF \E i \in 1..Len(url) : url[i] = "S"
  THEN <<"H", "W">> \o ShortsId(url)
  ELSE url

\* ytdl.validateURL: a watch URL whose identifier has exactly 11 characters.
validateURL(url) == Len(url) = 3 /\ url[1] = "H" /\ url[2] = "W" /\ url[3] = "ID1"

\* The character class of sanitize with the slash added to it.
AllowedWithSlash(c) == c \in {"M", "y", "v", " ", ".", "_", "-", "/"}

\* The characters sanitize keeps: [a-zA-Z0-9_\-\. ]
Allowed(c) == c \in {"M", "y", "v", " ", ".", "_", "-"}

sanitize(title) == SelectSeq(title, Allowed)

(***************************************************************************)
(* Inputs                                                                  *)
(***************************************************************************)

\* req.query.url as received (before decoding); <<"undefined">> is a missing
\* parameter, which decodeURIComponent turns into the text "undefined".
Urls ==
  { <<"H", "W", "ID1">>,
    <<"H", "S", "ID1">>,
    <<"H", "S", "%3F">>,
    <<"H", "W", "%">>,
    <<"undefined">> }

\* req.query.quality; "undefined" is a missing parameter.
Qualities == {"18", "137", "140", "999", "undefined"}
\* req.query.type; "undefined" is a missing parameter.
TypeParams == {"video", "audio", "undefined"}

F18  == [itag |-> "18",  hasVideo |-> TRUE,  hasAudio |-> TRUE]
F137 == [itag |-> "137", hasVideo |-> TRUE,  hasAudio |-> FALSE]
F140 == [itag |-> "140", hasVideo |-> FALSE, hasAudio |-> TRUE]

\* What ytdl.getInfo may resolve to.
Titles == { <<"M", ":", "y">>, <<"v", "/">> }
Infos == [formats : {<<F18, F137, F140>>}, title : Titles]

Uniques == 1..MaxUnique

NoInfo == [formats |-> <<>>, title |-> <<>>]
NoFormat == [itag |-> "-", hasVideo |-> FALSE, hasAudio |-> FALSE]

\* The sets of temporary files whose fs.unlinkSync throws (EPERM, EBUSY ...).
BadSets == {{}} \cup {{k} : k \in KindSet}

(***************************************************************************)
(* State                                                                   *)
(***************************************************************************)
VARIABLES
  route,        \* route[r]: the handler serving request r
  pc,           \* pc[r]: where request r's handler is suspended
  rawUrl,       \* rawUrl[r]: the normalized URL (None before it is computed)
  itag,         \* itag[r]: req.query.quality
  type,         \* type[r]: req.query.type || "video"
  info,         \* info[r]: what ytdl.getInfo resolved to
  status,       \* status[r]: HTTP status on the wire (0: nothing sent yet)
  body,         \* body[r]: message body passed to res.send / res.json
  sendCount,    \* sendCount[r]: number of res.send / res.json calls
  hdr,          \* hdr[r]: headers set with res.setHeader
  log,          \* log[r]: errors written with console.error
  pipe,         \* pipe[r]: state of pipeline(stream, res)
  streams,      \* streams[r]: the ytdl(...) streams opened
  getInfoCalls, \* getInfoCalls[r]: number of ytdl.getInfo calls
  mkdirCalls,   \* mkdirCalls[r]: number of fs.mkdirSync calls
  unique,       \* unique[r]: the unique suffix of the temporary paths (0: none)
  dl,           \* dl[r][k]: state of the download into videoPath / audioPath
  ff,           \* ff[r]: state of the ffmpeg command
  created,      \* created[r]: the temporary files request r has created
  unlinkErr,    \* unlinkErr[r]: the file whose unlinkSync threw ("none")
  fs,           \* the files that exist under temp/
  crashed,      \* an exception escaped a listener: the process has exited
  fn,           \* the function under test ("server": the handlers run)
  arg,          \* the argument the function under test is applied to
  outs          \* the results of its successive applications

pureVars == <<fn, arg, outs>>

vars == <<route, pc, rawUrl, itag, type, info, status, body, sendCount, hdr, log,
          pipe, streams, getInfoCalls, mkdirCalls, unique, dl, ff, created,
          unlinkErr, fs, crashed, fn, arg, outs>>

reqVars   == <<rawUrl, itag, type, info>>
respVars  == <<status, body, sendCount>>
mergeVars == <<unique, dl, ff, created, unlinkErr, fs>>

Init ==
  /\ route = [r \in Req |-> "none"]
  /\ pc = [r \in Req |-> "idle"]
  /\ rawUrl = [r \in Req |-> None]
  /\ itag = [r \in Req |-> "-"]
  /\ type = [r \in Req |-> "-"]
  /\ info = [r \in Req |-> NoInfo]
  /\ status = [r \in Req |-> 0]
  /\ body = [r \in Req |-> ""]
  /\ sendCount = [r \in Req |-> 0]
  /\ hdr = [r \in Req |-> {}]
  /\ log = [r \in Req |-> {}]
  /\ pipe = [r \in Req |-> "none"]
  /\ streams = [r \in Req |-> {}]
  /\ getInfoCalls = [r \in Req |-> 0]
  /\ mkdirCalls = [r \in Req |-> 0]
  /\ unique = [r \in Req |-> 0]
  /\ dl = [r \in Req |-> [video |-> "none", audio |-> "none"]]
  /\ ff = [r \in Req |-> "none"]
  /\ created = [r \in Req |-> {}]
  /\ unlinkErr = [r \in Req |-> "none"]
  /\ fs = {}
  /\ crashed = FALSE
  /\ fn = "server"
  /\ arg = <<>>
  /\ outs = <<>>

(***************************************************************************)
(* Helpers of the handlers                                                 *)
(***************************************************************************)

\* res.status(code).send(msg) / res.json(...)
Send(r, code, msg) ==
  /\ status' = [status EXCEPT ![r] = code]
  /\ body' = [body EXCEPT ![r] = msg]
  /\ sendCount' = [sendCount EXCEPT ![r] = @ + 1]

\* console.error(tag, err)
Log(r, tag) == log' = [log EXCEPT ![r] = @ \cup {tag}]

\* if (!ytdl.validateURL(rawUrl)) return res.status(400)... in /info
InfoRejects(raw) == ~validateURL(raw)

\* The same early return with the validation dropped.
DownloadRejectsNever(raw) == FALSE

\* if (!ytdl.validateURL(rawUrl)) return res.status(400)... in /download
DownloadRejects(raw) == ~validateURL(raw)

\* req.query.type || "video"
TypeOf(p) == IF p = "undefined" THEN "video" ELSE p

\* info.formats.find(f => f.itag.toString() === itag)
FindFormat(formats, q) ==
  IF \E i \in 1..Len(formats) : formats[i].itag = q
  THEN formats[CHOOSE i \in 1..Len(formats) :
                 /\ formats[i].itag = q
                 /\ \A j \in 1..Len(formats) : formats[j].itag = q => i <= j]
  ELSE NoFormat

\* The branch taken at lines 130-161 with the guard of line 130 left out.
StrategyNoFormatCheck(format, ty) ==
  IF ty = "audio" THEN "audio"
  ELSE IF format.hasVideo /\ format.hasAudio THEN "direct"
  ELSE "merge"

\* The branch taken at lines 130-161 with the condition of line 130
\* reduced to !format.
StrategyFormatOnly(format, ty) ==
  IF format = NoFormat THEN "unsupported"
  ELSE IF ty = "audio" THEN "audio"
  ELSE IF format.hasVideo /\ format.hasAudio THEN "direct"
  ELSE "merge"

\* The branch taken at lines 130-161 with the direct-stream test of line 152
\* reduced to format.hasVideo.
StrategyVideoOnlyTest(format, ty) ==
  IF format = NoFormat /\ ty # "audio" THEN "unsupported"
  ELSE IF ty = "audio" THEN "audio"
  ELSE IF format.hasVideo /\ ~format.hasAudio THEN "direct"
  ELSE "merge"

\* The branch of the /download handler taken for the format found and the type.
Strategy(format, ty) ==
  IF format = NoFormat /\ ty # "audio" THEN "unsupported"
  ELSE IF ty = "audio" THEN "audio"
  ELSE IF format.hasVideo /\ format.hasAudio THEN "direct"
  ELSE "merge"

\* `attachment; filename="${title}.${type === 'audio' ? 'mp3' : 'mp4'}"`
Disposition(title, ty) ==
  <<"Content-Disposition", sanitize(title) \o <<IF ty = "audio" THEN ".mp3" ELSE ".mp4">> >>

\* The headers on the response when pipeline() is called, with the
\* Content-Type of lines 145 / 155 not set by then.
DirectHeadersNoType(title, ty) == {Disposition(title, ty)}

\* The headers the direct strategies have set when pipeline() is called:
\* Content-Disposition (line 136) and Content-Type (line 145 / line 155).
DirectHeaders(title, ty) ==
  {Disposition(title, ty),
   <<"Content-Type", <<IF ty = "audio" THEN "audio/mpeg" ELSE "video/mp4">> >>}

\* path.join(tempDir, `${title}_${unique}_<kind>`), title already sanitized
PathOf(title, u, k) == [title |-> sanitize(title), unique |-> u, kind |-> k]

Path(r, k) == PathOf(info[r].title, unique[r], k)

Paths(r) == {Path(r, k) : k \in KindSet}

\* Promise.all of the two download promises resolves as soon as one is done.
JoinReadyRace(d) == d.video = "finished" \/ d.audio = "finished"

\* Promise.all of the two download promises resolves when both have.
JoinReady(d) == d.video = "finished" /\ d.audio = "finished"

\* [videoPath, audioPath, outputPath].forEach(p => fs.existsSync(p) &&
\* fs.unlinkSync(p)) from the i-th path on; bad: the kinds whose unlinkSync
\* throws. The exception ends the forEach.
RECURSIVE CleanupFrom(_, _, _, _)
CleanupFrom(files, r, bad, i) ==
  IF i > Len(Kinds) THEN [fs |-> files, threw |-> "none"]
  ELSE IF Path(r, Kinds[i]) \notin files THEN CleanupFrom(files, r, bad, i + 1)
  ELSE IF Kinds[i] \in bad THEN [fs |-> files, threw |-> Kinds[i]]
  ELSE CleanupFrom(files \ {Path(r, Kinds[i])}, r, bad, i + 1)

\* The cleanup without the fs.existsSync(p) guard: unlinkSync of a path that
\* does not exist throws (ENOENT).
RECURSIVE CleanupNoExistsFrom(_, _, _, _)
CleanupNoExistsFrom(files, r, bad, i) ==
  IF i > Len(Kinds) THEN [fs |-> files, threw |-> "none"]
  ELSE IF Path(r, Kinds[i]) \notin files \/ Kinds[i] \in bad
       THEN [fs |-> files, threw |-> Kinds[i]]
  ELSE CleanupNoExistsFrom(files \ {Path(r, Kinds[i])}, r, bad, i + 1)

CleanupNoExists(files, r, bad) == CleanupNoExistsFrom(files, r, bad, 1)

Cleanup(files, r, bad) == CleanupFrom(files, r, bad, 1)

(***************************************************************************)
(* GET /info                                                               *)
(***************************************************************************)

\* The handler up to await ytdl.getInfo(rawUrl).
InfoRequest(r, url) ==
  /\ ~crashed /\ pc[r] = "idle"
  /\ route' = [route EXCEPT ![r] = "/info"]
  /\ IF DecodeThrows(url)
     THEN /\ Log(r, "/info error")
          /\ Send(r, 500, "Failed to fetch video info")
          /\ pc' = [pc EXCEPT ![r] = "done"]
          /\ UNCHANGED <<rawUrl, getInfoCalls>>
     ELSE LET raw == normalizeYouTubeUrl(decodeURIComponent(url)) IN
          /\ rawUrl' = [rawUrl EXCEPT ![r] = raw]
          /\ IF InfoRejects(raw)
             THEN /\ Send(r, 400, "Invalid YouTube URL")
                  /\ pc' = [pc EXCEPT ![r] = "done"]
                  /\ UNCHANGED <<getInfoCalls, log>>
             ELSE /\ getInfoCalls' = [getInfoCalls EXCEPT ![r] = @ + 1]
                  /\ pc' = [pc EXCEPT ![r] = "awaitInfo"]
                  /\ UNCHANGED <<respVars, log>>
  /\ UNCHANGED <<itag, type, info, hdr, pipe, streams, mkdirCalls, mergeVars,
                 crashed>>
  /\ UNCHANGED pureVars

\* getInfo resolved: res.json(videoInfo).
InfoResolved(r, inf) ==
  /\ ~crashed /\ pc[r] = "awaitInfo" /\ route[r] = "/info"
  /\ info' = [info EXCEPT ![r] = inf]
  /\ Send(r, 200, "json")
  /\ pc' = [pc EXCEPT ![r] = "done"]
  /\ UNCHANGED <<route, rawUrl, itag, type, hdr, log, pipe, streams, getInfoCalls,
                 mkdirCalls, mergeVars, crashed>>
  /\ UNCHANGED pureVars

\* getInfo rejected: the catch block.
InfoRejected(r) ==
  /\ ~crashed /\ pc[r] = "awaitInfo" /\ route[r] = "/info"
  /\ Log(r, "/info error")
  /\ Send(r, 500, "Failed to fetch video info")
  /\ pc' = [pc EXCEPT ![r] = "done"]
  /\ UNCHANGED <<route, reqVars, hdr, pipe, streams, getInfoCalls, mkdirCalls,
                 mergeVars, crashed>>
  /\ UNCHANGED pureVars

(***************************************************************************)
(* GET /download: up to the choice of the strategy                         *)
(***************************************************************************)

\* The handler up to await ytdl.getInfo(rawUrl).
DownloadRequest(r, url, q, tp) ==
  /\ ~crashed /\ pc[r] = "idle"
  /\ route' = [route EXCEPT ![r] = "/download"]
  /\ IF DecodeThrows(url)
     THEN /\ Log(r, "/download error")
          /\ Send(r, 500, "Server error during download")
          /\ pc' = [pc EXCEPT ![r] = "done"]
          /\ UNCHANGED <<rawUrl, itag, type, getInfoCalls>>
     ELSE LET raw == normalizeYouTubeUrl(decodeURIComponent(url)) IN
          /\ rawUrl' = [rawUrl EXCEPT ![r] = raw]
          /\ itag' = [itag EXCEPT ![r] = q]
          /\ type' = [type EXCEPT ![r] = TypeOf(tp)]
          /\ IF DownloadRejects(raw)
             THEN /\ Send(r, 400, "Invalid YouTube URL")
                  /\ pc' = [pc EXCEPT ![r] = "done"]
                  /\ UNCHANGED <<getInfoCalls, log>>
             ELSE /\ getInfoCalls' = [getInfoCalls EXCEPT ![r] = @ + 1]
                  /\ pc' = [pc EXCEPT ![r] = "awaitInfo"]
                  /\ UNCHANGED <<respVars, log>>
  /\ UNCHANGED <<info, hdr, pipe, streams, mkdirCalls, mergeVars, crashed>>
  /\ UNCHANGED pureVars

\* getInfo rejected: the outer catch block.
DownloadInfoRejected(r) ==
  /\ ~crashed /\ pc[r] = "awaitInfo" /\ route[r] = "/download"
  /\ Log(r, "/download error")
  /\ Send(r, 500, "Server error during download")
  /\ pc' = [pc EXCEPT ![r] = "done"]
  /\ UNCHANGED <<route, reqVars, hdr, pipe, streams, getInfoCalls, mkdirCalls,
                 mergeVars, crashed>>
  /\ UNCHANGED pureVars

\* getInfo resolved, no format for the itag and type is not audio: 400.
DownloadUnsupported(r, inf) ==
  /\ ~crashed /\ pc[r] = "awaitInfo" /\ route[r] = "/download"
  /\ Strategy(FindFormat(inf.formats, itag[r]), type[r]) = "unsupported"
  /\ info' = [info EXCEPT ![r] = inf]
  /\ Send(r, 400, "Unsupported quality or itag.")
  /\ pc' = [pc EXCEPT ![r] = "done"]
  /\ UNCHANGED <<route, rawUrl, itag, type, hdr, log, pipe, streams, getInfoCalls,
                 mkdirCalls, mergeVars, crashed>>
  /\ UNCHANGED pureVars

\* getInfo resolved, type is audio: the audio-only stream is piped to res.
DownloadAudio(r, inf) ==
  /\ ~crashed /\ pc[r] = "awaitInfo" /\ route[r] = "/download"
  /\ Strategy(FindFormat(inf.formats, itag[r]), type[r]) = "audio"
  /\ info' = [info EXCEPT ![r] = inf]
  /\ mkdirCalls' = [mkdirCalls EXCEPT ![r] = @ + 1]
  /\ streams' = [streams EXCEPT ![r] =
                   {[url |-> rawUrl[r], filter |-> "audioonly", quality |-> "highestaudio"]}]
  /\ hdr' = [hdr EXCEPT ![r] = DirectHeaders(inf.title, type[r])]
  /\ pipe' = [pipe EXCEPT ![r] = "started"]
  /\ pc' = [pc EXCEPT ![r] = "piping"]
  /\ UNCHANGED <<route, rawUrl, itag, type, respVars, log, getInfoCalls, mergeVars,
                 crashed>>
  /\ UNCHANGED pureVars

\* getInfo resolved, the format has both tracks: its stream is piped to res.
DownloadDirect(r, inf) ==
  /\ ~crashed /\ pc[r] = "awaitInfo" /\ route[r] = "/download"
  /\ Strategy(FindFormat(inf.formats, itag[r]), type[r]) = "direct"
  /\ info' = [info EXCEPT ![r] = inf]
  /\ mkdirCalls' = [mkdirCalls EXCEPT ![r] = @ + 1]
  /\ streams' = [streams EXCEPT ![r] =
                   {[url |-> rawUrl[r], filter |-> "-", quality |-> itag[r]]}]
  /\ hdr' = [hdr EXCEPT ![r] = DirectHeaders(inf.title, type[r])]
  /\ pipe' = [pipe EXCEPT ![r] = "started"]
  /\ pc' = [pc EXCEPT ![r] = "piping"]
  /\ UNCHANGED <<route, rawUrl, itag, type, respVars, log, getInfoCalls, mergeVars,
                 crashed>>
  /\ UNCHANGED pureVars

\* getInfo resolved, otherwise: the temporary paths are allocated and the two
\* downloads started; the handler awaits Promise.all.
DownloadMerge(r, inf, u) ==
  /\ ~crashed /\ pc[r] = "awaitInfo" /\ route[r] = "/download"
  /\ Strategy(FindFormat(inf.formats, itag[r]), type[r]) = "merge"
  /\ info' = [info EXCEPT ![r] = inf]
  /\ mkdirCalls' = [mkdirCalls EXCEPT ![r] = @ + 1]
  /\ hdr' = [hdr EXCEPT ![r] = {Disposition(inf.title, type[r])}]
  /\ unique' = [unique EXCEPT ![r] = u]
  /\ streams' = [streams EXCEPT ![r] =
                   {[url |-> rawUrl[r], filter |-> "-", quality |-> itag[r]],
                    [url |-> rawUrl[r], filter |-> "audioonly", quality |-> "-"]}]
  /\ dl' = [dl EXCEPT ![r] = [video |-> "pending", audio |-> "pending"]]
  /\ pc' = [pc EXCEPT ![r] = "downloading"]
  /\ UNCHANGED <<route, rawUrl, itag, type, respVars, log, pipe, getInfoCalls, ff,
                 created, unlinkErr, fs, crashed>>
  /\ UNCHANGED pureVars

(***************************************************************************)
(* Direct streaming: pipeline(stream, res, callback)                       *)
(***************************************************************************)

\* The first chunk reaches res: the headers are flushed with status 200.
PipeFirstByte(r) ==
  /\ ~crashed /\ pc[r] \in {"piping", "pipingMerged"} /\ pipe[r] = "started"
  /\ pipe' = [pipe EXCEPT ![r] = "flowing"]
  /\ status' = [status EXCEPT ![r] = 200]
  /\ UNCHANGED <<route, pc, reqVars, body, sendCount, hdr, log, streams,
                 getInfoCalls, mkdirCalls, mergeVars, crashed>>
  /\ UNCHANGED pureVars

\* The remote stream ended and res finished: callback(undefined).
DirectPipeFinish(r) ==
  /\ ~crashed /\ pc[r] = "piping" /\ pipe[r] = "flowing"
  /\ pipe' = [pipe EXCEPT ![r] = "finished"]
  /\ pc' = [pc EXCEPT ![r] = "done"]
  /\ UNCHANGED <<route, reqVars, respVars, hdr, log, streams, getInfoCalls,
                 mkdirCalls, mergeVars, crashed>>
  /\ UNCHANGED pureVars

\* The remote stream or res failed: pipeline destroys both, callback(err).
DirectPipeError(r) ==
  /\ ~crashed /\ pc[r] = "piping" /\ pipe[r] \in {"started", "flowing"}
  /\ pipe' = [pipe EXCEPT ![r] = "failed"]
  /\ Log(r, IF type[r] = "audio" THEN "Audio stream error" ELSE "Video stream error")
  /\ pc' = [pc EXCEPT ![r] = "done"]
  /\ UNCHANGED <<route, reqVars, respVars, hdr, streams, getInfoCalls, mkdirCalls,
                 mergeVars, crashed>>
  /\ UNCHANGED pureVars

(***************************************************************************)
(* Merge: the two downloads                                                *)
(***************************************************************************)

Other(k) == IF k = "video" THEN "audio" ELSE "video"

\* fs.createWriteStream(path) opened its file.
DownloadOpen(r, k) ==
  /\ ~crashed /\ dl[r][k] = "pending"
  /\ dl' = [dl EXCEPT ![r][k] = "open"]
  /\ fs' = fs \cup {Path(r, k)}
  /\ created' = [created EXCEPT ![r] = @ \cup {k}]
  /\ UNCHANGED <<route, pc, reqVars, respVars, hdr, log, pipe, streams,
                 getInfoCalls, mkdirCalls, unique, ff, unlinkErr, crashed>>
  /\ UNCHANGED pureVars

\* The write stream emitted "finish": its promise resolves; when Promise.all
\* resolves the handler goes on and starts ffmpeg.
DownloadFinish(r, k) ==
  /\ ~crashed /\ dl[r][k] = "open"
  /\ dl' = [dl EXCEPT ![r][k] = "finished"]
  /\ IF pc[r] = "downloading" /\ JoinReady(dl'[r])
     THEN /\ ff' = [ff EXCEPT ![r] = "running"]
          /\ pc' = [pc EXCEPT ![r] = "transcoding"]
     ELSE UNCHANGED <<ff, pc>>
  /\ UNCHANGED <<route, reqVars, respVars, hdr, log, pipe, streams, getInfoCalls,
                 mkdirCalls, unique, created, unlinkErr, fs, crashed>>
  /\ UNCHANGED pureVars

\* Every rejection of a download promise reaches a catch that sends the 500.
AnyRejection(r) == TRUE

\* The rejection is the first of the awaited Promise.all, which the handler
\* is still suspended on: only this one reaches the inner catch.
FirstRejection(r) == pc[r] = "downloading"

\* The write stream emitted "error": its promise rejects; the first rejection
\* rejects Promise.all and the inner catch sends 500.
DownloadWriteError(r, k) ==
  /\ ~crashed /\ dl[r][k] \in {"pending", "open"}
  /\ dl' = [dl EXCEPT ![r][k] = IF @ = "pending" THEN "errOpen" ELSE "errWrite"]
  /\ IF FirstRejection(r)
     THEN /\ Log(r, "Download stream error")
          /\ Send(r, 500, "Failed to download video or audio stream.")
          /\ pc' = [pc EXCEPT ![r] = "done"]
     ELSE UNCHANGED <<log, respVars, pc>>
  /\ UNCHANGED <<route, reqVars, hdr, pipe, streams, getInfoCalls, mkdirCalls,
                 unique, ff, created, unlinkErr, fs, crashed>>
  /\ UNCHANGED pureVars

\* The ytdl stream emitted "error". The listeners of lines 174-175 and 180-181
\* are on the write stream pipe() returns, so the ytdl stream has none: the
\* error is thrown as an uncaught exception and the process exits.
DownloadSourceError(r, k) ==
  /\ ~crashed /\ dl[r][k] \in {"pending", "open"}
  /\ dl' = [dl EXCEPT ![r][k] = "srcErr"]
  /\ crashed' = TRUE
  /\ UNCHANGED <<route, pc, reqVars, respVars, hdr, log, pipe, streams,
                 getInfoCalls, mkdirCalls, unique, ff, created, unlinkErr, fs>>
  /\ UNCHANGED pureVars

(***************************************************************************)
(* Merge: ffmpeg and the copy of the merged file                           *)
(***************************************************************************)

\* ffmpeg created its output file (-y overwrites one that exists).
FfmpegWrite(r) ==
  /\ ~crashed /\ pc[r] = "transcoding" /\ ff[r] = "running"
  /\ "output" \notin created[r]
  /\ fs' = fs \cup {Path(r, "output")}
  /\ created' = [created EXCEPT ![r] = @ \cup {"output"}]
  /\ UNCHANGED <<route, pc, reqVars, respVars, hdr, log, pipe, streams,
                 getInfoCalls, mkdirCalls, unique, dl, ff, unlinkErr, crashed>>
  /\ UNCHANGED pureVars

\* The "end" listener: statSync, the two headers, pipeline(readStream, res).
\* statSync throws when the file is gone; nothing catches it in a listener.
FfmpegEnd(r) ==
  /\ ~crashed /\ pc[r] = "transcoding" /\ ff[r] = "running"
  /\ "output" \in created[r]
  /\ ff' = [ff EXCEPT ![r] = "ended"]
  /\ IF Path(r, "output") \in fs
     THEN /\ hdr' = [hdr EXCEPT ![r] = @ \cup {<<"Content-Length", <<"size">> >>,
                                               <<"Content-Type", <<"video/mp4">> >>}]
          /\ pipe' = [pipe EXCEPT ![r] = "started"]
          /\ pc' = [pc EXCEPT ![r] = "pipingMerged"]
          /\ UNCHANGED crashed
     ELSE /\ crashed' = TRUE
          /\ UNCHANGED <<hdr, pipe, pc>>
  /\ UNCHANGED <<route, reqVars, respVars, log, streams, getInfoCalls, mkdirCalls,
                 unique, dl, created, unlinkErr, fs>>
  /\ UNCHANGED pureVars

\* The "error" listener: console.error, the cleanup, then the 500. An
\* exception of unlinkSync leaves the listener before res.status(500).
FfmpegError(r, bad) ==
  /\ ~crashed /\ pc[r] = "transcoding" /\ ff[r] = "running"
  /\ ff' = [ff EXCEPT ![r] = "error"]
  /\ Log(r, "FFmpeg merge error")
  /\ LET c == Cleanup(fs, r, bad) IN
     /\ fs' = c.fs
     /\ unlinkErr' = [unlinkErr EXCEPT ![r] = c.threw]
     /\ IF c.threw = "none"
        THEN /\ Send(r, 500, "Failed to merge video and audio.")
             /\ pc' = [pc EXCEPT ![r] = "done"]
             /\ UNCHANGED crashed
        ELSE /\ crashed' = TRUE
             /\ UNCHANGED <<respVars, pc>>
  /\ UNCHANGED <<route, reqVars, hdr, pipe, streams, getInfoCalls, mkdirCalls,
                 unique, dl, created>>
  /\ UNCHANGED pureVars

\* The callback of pipeline(readStream, res): the cleanup, then the log of
\* the error if there is one.
MergedPipeDone(r, bad, err) ==
  /\ ~crashed /\ pc[r] = "pipingMerged"
  /\ IF err THEN pipe[r] \in {"started", "flowing"} ELSE pipe[r] = "flowing"
  /\ pipe' = [pipe EXCEPT ![r] = IF err THEN "failed" ELSE "finished"]
  /\ LET c == Cleanup(fs, r, bad) IN
     /\ fs' = c.fs
     /\ unlinkErr' = [unlinkErr EXCEPT ![r] = c.threw]
     /\ IF c.threw = "none"
        THEN /\ IF err THEN Log(r, "Streaming merged video error") ELSE UNCHANGED log
             /\ pc' = [pc EXCEPT ![r] = "done"]
             /\ UNCHANGED crashed
        ELSE /\ crashed' = TRUE
             /\ UNCHANGED <<log, pc>>
  /\ UNCHANGED <<route, reqVars, respVars, hdr, streams, getInfoCalls, mkdirCalls,
                 unique, dl, ff, created>>
  /\ UNCHANGED pureVars

MergedPipeFinish(r, bad) == MergedPipeDone(r, bad, FALSE)

MergedPipeError(r, bad) == MergedPipeDone(r, bad, TRUE)

(***************************************************************************)
(* Specification                                                           *)
(***************************************************************************)
Next ==
  \E r \in Req :
    \/ \E url \in Urls : InfoRequest(r, url)
    \/ \E inf \in Infos : InfoResolved(r, inf)
    \/ InfoRejected(r)
    \/ \E url \in Urls, q \in Qualities, tp \in TypeParams : DownloadRequest(r, url, q, tp)
    \/ DownloadInfoRejected(r)
    \/ \E inf \in Infos : DownloadUnsupported(r, inf)
    \/ \E inf \in Infos : DownloadAudio(r, inf)
    \/ \E inf \in Infos : DownloadDirect(r, inf)
    \/ \E inf \in Infos, u \in Uniques : DownloadMerge(r, inf, u)
    \/ PipeFirstByte(r)
    \/ DirectPipeFinish(r)
    \/ DirectPipeError(r)
    \/ \E k \in {"video", "audio"} : DownloadOpen(r, k)
    \/ \E k \in {"video", "audio"} : DownloadFinish(r, k)
    \/ \E k \in {"video", "audio"} : DownloadWriteError(r, k)
    \/ \E k \in {"video", "audio"} : DownloadSourceError(r, k)
    \/ FfmpegWrite(r)
    \/ FfmpegEnd(r)
    \/ \E bad \in BadSets : FfmpegError(r, bad)
    \/ \E bad \in BadSets : MergedPipeFinish(r, bad)
    \/ \E bad \in BadSets : MergedPipeError(r, bad)

Spec == Init /\ [][Next]_vars

(***************************************************************************)
(* The pure functions and the cleanup, applied to bounded inputs             *)
(***************************************************************************)

\* Longest text the functions are applied to.
MaxLen == 3

Seqs(S, n) == UNION {[1..k -> S] : k \in 0..n}

\* URLs: every text of these character runs.
UrlStrings == Seqs({"H", "W", "S", "ID1", "x", "?"}, MaxLen)

\* Titles: every text of these characters.
TitleStrings == Seqs({"M", "y", " ", ".", ":", "/"}, MaxLen)

\* The request whose work item the cleanup is applied to.
WorkReq == "r1"

\* No request has arrived.
IdleServer ==
  /\ route = [r \in Req |-> "none"]
  /\ pc = [r \in Req |-> "idle"]
  /\ rawUrl = [r \in Req |-> None]
  /\ itag = [r \in Req |-> "-"]
  /\ type = [r \in Req |-> "-"]
  /\ status = [r \in Req |-> 0]
  /\ body = [r \in Req |-> ""]
  /\ sendCount = [r \in Req |-> 0]
  /\ hdr = [r \in Req |-> {}]
  /\ log = [r \in Req |-> {}]
  /\ pipe = [r \in Req |-> "none"]
  /\ streams = [r \in Req |-> {}]
  /\ getInfoCalls = [r \in Req |-> 0]
  /\ mkdirCalls = [r \in Req |-> 0]
  /\ dl = [r \in Req |-> [video |-> "none", audio |-> "none"]]
  /\ ff = [r \in Req |-> "none"]
  /\ created = [r \in Req |-> {}]
  /\ unlinkErr = [r \in Req |-> "none"]
  /\ crashed = FALSE

\* A URL or a title to apply normalizeYouTubeUrl or sanitize to, or a work
\* item (title, unique suffix), the files of it that exist and the files
\* whose unlinkSync throws, to apply the cleanup to.
InitPure ==
  /\ IdleServer
  /\ outs = <<>>
  /\ \/ /\ fn = "normalize" /\ arg \in UrlStrings
        /\ info = [r \in Req |-> NoInfo] /\ unique = [r \in Req |-> 0] /\ fs = {}
     \/ /\ fn = "sanitize" /\ arg \in TitleStrings
        /\ info = [r \in Req |-> NoInfo] /\ unique = [r \in Req |-> 0] /\ fs = {}
     \/ /\ fn = "cleanup"
        /\ \E inf \in Infos, u \in Uniques :
             /\ info = [r \in Req |-> IF r = WorkReq THEN inf ELSE NoInfo]
             /\ unique = [r \in Req |-> IF r = WorkReq THEN u ELSE 0]
             /\ fs \in SUBSET {PathOf(inf.title, u, k) : k \in KindSet}
        /\ arg \in [files : {fs}, bad : BadSets]

serverVars == <<route, pc, rawUrl, itag, type, info, status, body, sendCount, hdr,
                log, pipe, streams, getInfoCalls, mkdirCalls, unique, dl, ff,
                created, unlinkErr, crashed>>

\* rawUrl = normalizeYouTubeUrl(decodedUrl)
ApplyNormalize ==
  /\ fn = "normalize" /\ outs = <<>>
  /\ outs' = <<normalizeYouTubeUrl(arg)>>
  /\ UNCHANGED <<serverVars, fs, fn, arg>>

\* title = sanitize(...), then sanitize applied to its own result
ApplySanitize ==
  /\ fn = "sanitize" /\ Len(outs) < 2
  /\ outs' = Append(outs, sanitize(IF outs = <<>> THEN arg ELSE outs[Len(outs)]))
  /\ UNCHANGED <<serverVars, fs, fn, arg>>

\* The cleanup of lines 204 / 210 run on the work item, then run again.
ApplyCleanup ==
  /\ fn = "cleanup" /\ Len(outs) < 2
  /\ LET c == Cleanup(fs, WorkReq, arg.bad) IN
     /\ fs' = c.fs
     /\ outs' = Append(outs, c)
  /\ UNCHANGED <<serverVars, fn, arg>>

NextPure == ApplyNormalize \/ ApplySanitize \/ ApplyCleanup

SpecPure == InitPure /\ [][NextPure]_vars

(***************************************************************************)
(* Properties                                                              *)
(***************************************************************************)

\* Request r took the merge strategy: its temporary paths are allocated.
IsMerge(r) == unique[r] # 0

\* A response was sent or the response stream finished (or failed).
Completed(r) == sendCount[r] > 0 \/ pipe[r] \in {"finished", "failed"}

FailedStates == {"errOpen", "errWrite", "srcErr"}

\* C1: once a merge request has completed (a response was sent or the
\* response stream finished), no file exists at its videoPath, audioPath or
\* outputPath, whichever step failed.
C1_NoTempFilesAfterCompletion ==
  \A r \in Req : IsMerge(r) /\ Completed(r) => Paths(r) \cap fs = {}

\* C2: when either download of a merge request has failed (an error of the
\* remote stream or of the file write), the request has failed with a 500
\* response and the transcoder is not invoked.
C2_DownloadFailureGives500 ==
  \A r \in Req :
    (dl[r].video \in FailedStates \/ dl[r].audio \in FailedStates)
      => status[r] = 500 /\ sendCount[r] = 1 /\ ff[r] = "none"

\* C3: the transcoder is started only after both downloads have finished,
\* and the merged file is piped to the response only after the transcoder
\* reported success.
C3_TranscodeAfterBothDownloads ==
  \A r \in Req :
    /\ ff[r] # "none" => dl[r].video = "finished" /\ dl[r].audio = "finished"
    /\ IsMerge(r) /\ pipe[r] # "none" => ff[r] = "ended" /\ "output" \in created[r]

\* C3 witness: a merge request whose merged file is flowing to the response.
C3_Witness ==
  \E r \in Req : pc[r] = "pipingMerged" /\ pipe[r] = "flowing" /\ ff[r] = "ended"

\* C4: a request (/info or /download) whose normalized URL fails the URL
\* validation ends with a 400 response, and no getInfo call, no stream and no
\* filesystem operation is made for it.
C4_InvalidUrlNoSideEffects ==
  \A r \in Req :
    rawUrl[r] # None /\ ~validateURL(rawUrl[r])
      => /\ pc[r] = "done" /\ status[r] = 400 /\ sendCount[r] = 1
         /\ getInfoCalls[r] = 0 /\ streams[r] = {}
         /\ mkdirCalls[r] = 0 /\ created[r] = {} /\ unique[r] = 0
         /\ pipe[r] = "none" /\ hdr[r] = {}

\* C4 witness: a /download request and an /info request both rejected for
\* their URL, one of them a shorts URL without identifier.
C4_Witness ==
  \E r1, r2 \in Req :
    /\ route[r1] = "/download" /\ route[r2] = "/info"
    /\ rawUrl[r1] = <<"H", "W", "undefined">> /\ status[r1] = 400
    /\ rawUrl[r2] # None /\ ~validateURL(rawUrl[r2]) /\ status[r2] = 400

\* C5: when a deletion of the cleanup raises an error, the error is
\* swallowed: the other paths are still deleted, no exception escapes, and
\* the 500 of a transcode failure is still sent.
C5_CleanupBestEffort ==
  \A r \in Req :
    unlinkErr[r] # "none"
      => /\ ~crashed
         /\ \A k \in KindSet \ {unlinkErr[r]} : Path(r, k) \notin fs
         /\ ff[r] = "error" => status[r] = 500

\* A failure of request r that happened before anything was sent: resolver
\* error, download error, transcode error, error preparing the merged file.
FailedBeforeSend(r) ==
  \/ "/download error" \in log[r]
  \/ "/info error" \in log[r]
  \/ dl[r].video \in FailedStates
  \/ dl[r].audio \in FailedStates
  \/ ff[r] = "error"
  \/ ff[r] = "ended" /\ pipe[r] = "none"

\* C6: a failure before anything was sent ends the request with an HTTP
\* error status and a message body; a failure after streaming has begun
\* changes no status and sends nothing.
C6_FailuresBecomeErrorStatus ==
  \A r \in Req :
    /\ FailedBeforeSend(r) => status[r] \in {400, 500} /\ body[r] # ""
    /\ pipe[r] = "failed" => sendCount[r] = 0 /\ status[r] \in {0, 200}

\* C7: the step in which the transcoder reports an error ends the request
\* with a 500 response, leaves the response without a stream, and leaves no
\* file at any of the three temporary paths.
C7_TranscodeErrorGives500 ==
  [][\A r \in Req :
       ff[r] = "running" /\ ff'[r] = "error"
         => status'[r] = 500 /\ pipe'[r] = "none" /\ Paths(r) \cap fs' = {}]_vars

\* The format the resolver reported for the quality selector of request r.
Matched(r) == FindFormat(info[r].formats, itag[r])

\* The handler of /download has gone past the resolver's answer.
Resolved(r) == route[r] = "/download" /\ info[r] # NoInfo

\* C8: a video request whose quality selector matches no reported format
\* gets the 400 "Unsupported" response; no temporary file is created and no
\* stream is opened for it.
C8_UnsupportedFormat ==
  \A r \in Req :
    Resolved(r) /\ type[r] # "audio" /\ Matched(r) = NoFormat
      => /\ status[r] = 400 /\ body[r] = "Unsupported quality or itag."
         /\ pc[r] = "done" /\ sendCount[r] = 1
         /\ streams[r] = {} /\ created[r] = {} /\ unique[r] = 0
         /\ pipe[r] = "none" /\ mkdirCalls[r] = 0

\* C8 witness: a video request with a missing quality and one with an
\* unknown quality, both answered.
C8_Witness ==
  \E r1, r2 \in Req :
    /\ Resolved(r1) /\ type[r1] = "video" /\ itag[r1] = "undefined" /\ status[r1] = 400
    /\ Resolved(r2) /\ type[r2] = "video" /\ itag[r2] = "999" /\ status[r2] = 400

\* C9: an audio request is always served by the direct strategy with the
\* fixed highest-audio selection, whatever its quality selector: two audio
\* requests for the same URL and the same resolver answer have the same
\* stream selection and the same headers, and create no temporary file.
C9_AudioIgnoresQuality ==
  /\ \A r \in Req :
       Resolved(r) /\ type[r] = "audio"
         => /\ pipe[r] # "none"
            /\ streams[r] = {[url |-> rawUrl[r], filter |-> "audioonly",
                              quality |-> "highestaudio"]}
            /\ hdr[r] = {<<"Content-Disposition", sanitize(info[r].title) \o <<".mp3">> >>,
                         <<"Content-Type", <<"audio/mpeg">> >>}
            /\ created[r] = {} /\ unique[r] = 0
            /\ dl[r] = [video |-> "none", audio |-> "none"] /\ ff[r] = "none"
  /\ \A r1, r2 \in Req :
       /\ Resolved(r1) /\ Resolved(r2) /\ type[r1] = "audio" /\ type[r2] = "audio"
       /\ rawUrl[r1] = rawUrl[r2] /\ info[r1] = info[r2]
       => streams[r1] = streams[r2] /\ hdr[r1] = hdr[r2]

\* C9 witness: two audio requests for the same URL, one with a quality that
\* matches no format and one with a quality that matches one, both streaming.
C9_Witness ==
  \E r1, r2 \in Req :
    /\ Resolved(r1) /\ Resolved(r2) /\ type[r1] = "audio" /\ type[r2] = "audio"
    /\ rawUrl[r1] = rawUrl[r2] /\ info[r1] = info[r2]
    /\ itag[r1] = "999" /\ itag[r2] = "137"
    /\ pipe[r1] = "flowing" /\ pipe[r2] = "flowing"

\* C10: a video request whose matched format has a video and an audio track
\* is served by the direct strategy: exactly one remote stream, bound to that
\* format, piped to the response with content-type video/mp4, and no
\* temporary file.
C10_DirectVideo ==
  \A r \in Req :
    Resolved(r) /\ type[r] # "audio" /\ Matched(r).hasVideo /\ Matched(r).hasAudio
      => /\ pipe[r] # "none"
         /\ streams[r] = {[url |-> rawUrl[r], filter |-> "-", quality |-> Matched(r).itag]}
         /\ hdr[r] = {<<"Content-Disposition", sanitize(info[r].title) \o <<".mp4">> >>,
                      <<"Content-Type", <<"video/mp4">> >>}
         /\ created[r] = {} /\ unique[r] = 0
         /\ dl[r] = [video |-> "none", audio |-> "none"] /\ ff[r] = "none"

\* C10 witness: a video request for the format with both tracks whose stream
\* has been delivered.
C10_Witness ==
  \E r \in Req :
    /\ Resolved(r) /\ type[r] = "video" /\ itag[r] = "18"
    /\ pipe[r] = "finished" /\ status[r] = 200

\* C11: whenever the merge strategy is executed (temporary paths allocated,
\* two downloads launched), the format matched by the quality selector has
\* a video track and no audio track.
C11_MergeOnlyForVideoOnly ==
  \A r \in Req : IsMerge(r) => Matched(r).hasVideo /\ ~Matched(r).hasAudio

\* C12: every header of a merge response is set only after the transcoder's
\* success event: before it, no header is set on the response.
C12_MergeHeadersAfterTranscode ==
  \A r \in Req : IsMerge(r) /\ hdr[r] # {} => ff[r] = "ended"

\* The names of the headers set on the response of request r.
HeaderNames(r) == {h[1] : h \in hdr[r]}

\* Request r is served by a direct strategy (audio-only or direct video).
IsDirect(r) == route[r] = "/download" /\ ~IsMerge(r) /\ pipe[r] # "none"

\* C13: in both direct strategies Content-Type and Content-Disposition are
\* set when piping starts, hence before the first byte reaches the response,
\* and no header is set once piping has started.
C13_DirectHeadersBeforeFirstByte ==
  [][\A r \in Req :
       /\ IsDirect(r)' => {"Content-Type", "Content-Disposition"} \subseteq HeaderNames(r)'
       /\ IsDirect(r) => hdr'[r] = hdr[r]]_vars

\* C13 witness: an audio request and a direct video request whose streams
\* have written to the response, the headers of both in place.
C13_Witness ==
  \E r1, r2 \in Req :
    /\ IsDirect(r1) /\ type[r1] = "audio" /\ pipe[r1] = "finished" /\ status[r1] = 200
    /\ IsDirect(r2) /\ type[r2] = "video" /\ pipe[r2] = "flowing" /\ status[r2] = 200
    /\ HeaderNames(r1) = {"Content-Type", "Content-Disposition"}
    /\ HeaderNames(r2) = {"Content-Type", "Content-Disposition"}

\* C14: the temporary paths of two different merge requests are disjoint,
\* also for requests for the same title arriving at the same timestamp.
C14_PathsDisjoint ==
  \A r1, r2 \in Req :
    r1 # r2 /\ IsMerge(r1) /\ IsMerge(r2) => Paths(r1) \cap Paths(r2) = {}

\* C15: the cleanup is idempotent: run on a work item whose three paths are
\* already deleted it raises no error and changes nothing, and run twice it
\* leaves the same files and the same outcome as run once.
C15_CleanupIdempotent ==
  fn = "cleanup" =>
    /\ Len(outs) >= 1 /\ Paths(WorkReq) \cap arg.files = {}
         => outs[1].fs = arg.files /\ outs[1].threw = "none"
    /\ Len(outs) = 2 => outs[2].fs = outs[1].fs /\ outs[2].threw = outs[1].threw
    /\ Len(outs) = 2 /\ outs[1].threw = "none"
         => Paths(WorkReq) \cap fs = {} /\ outs[2].fs = fs

\* C15 witness: the cleanup has run twice on a work item whose three files
\* existed; the first run deleted them, the second found them deleted.
C15_Witness ==
  /\ fn = "cleanup" /\ Len(outs) = 2
  /\ arg.files = Paths(WorkReq) /\ arg.bad = {}
  /\ outs[1].fs = {} /\ fs = {}

\* The URL has a shorts segment followed by an identifier.
HasShortsId(u) ==
  \E i \in 1..Len(u) : u[i] = "S" /\ i < Len(u) /\ u[i + 1] \in {"ID1", "x"}

\* C16: normalizeYouTubeUrl rewrites a URL with a shorts segment followed
\* by an identifier to the watch URL of that identifier, and returns every
\* other URL unchanged.
C16_NormalizeShortsOrUnchanged ==
  fn = "normalize" /\ outs # <<>> =>
    IF HasShortsId(arg)
    THEN outs[1] = <<"H", "W">> \o ShortsId(arg)
    ELSE outs[1] = arg

\* Letters, digits, underscore, dot, hyphen and space.
SafeChars == {"M", "y", "v", "_", ".", "-", " "}

OnlySafe(s) == \A i \in 1..Len(s) : s[i] \in SafeChars

\* The positions of the title whose character is in the set.
Kept(s) == {i \in 1..Len(s) : s[i] \in SafeChars}

\* The j-th of these positions.
NthKept(s, j) == CHOOSE i \in Kept(s) : Cardinality({k \in Kept(s) : k <= i}) = j

\* The filename of a Content-Disposition header, without its extension.
FileStem(h) == SubSeq(h[2], 1, Len(h[2]) - 1)

\* C17: sanitize returns the title with exactly the characters outside
\* letters, digits, underscore, dot, hyphen and space removed and the others
\* kept in order; the filename of the Content-Disposition header and of the
\* temporary paths has only characters of that set; sanitize applied twice
\* equals sanitize applied once.
C17_SanitizeKeepsSafeChars ==
  fn = "sanitize" =>
    /\ Len(outs) >= 1 =>
         /\ Len(outs[1]) = Cardinality(Kept(arg))
         /\ \A j \in 1..Len(outs[1]) : outs[1][j] = arg[NthKept(arg, j)]
         /\ \A ty \in {"video", "audio"} : OnlySafe(FileStem(Disposition(arg, ty)))
         /\ \A u \in Uniques, k \in KindSet : OnlySafe(PathOf(arg, u, k).title)
    /\ Len(outs) = 2 => outs[2] = outs[1]

\* C17 witness: a title with a colon and a slash around a space, sanitized
\* twice: the two are removed, the space stays.
C17_Witness ==
  /\ fn = "sanitize" /\ Len(outs) = 2
  /\ arg = <<":", " ", "/">> /\ outs[1] = <<" ">>

\* C18: on the successful merge path none of the three temporary files is
\* deleted before the copy of the merged file to the response has
\* completed: a step that deletes a file a request in flight has created is the
\* completion callback of that request's copy (or its ffmpeg error listener,
\* which leaves the successful path).
C18_NoDeletionBeforeCopyDone ==
  [][\A r \in Req :
       /\ pc[r] \in {"downloading", "transcoding", "pipingMerged"}
       /\ ff'[r] # "error"
       /\ pipe'[r] \notin {"finished", "failed"}
       => \A k \in created[r] : Path(r, k) \in fs => Path(r, k) \in fs']_vars

\* A step of request r: any of its handlers, continuations or listeners.
Step(r) ==
  \/ \E url \in Urls, q \in Qualities, tp \in TypeParams : DownloadRequest(r, url, q, tp)
  \/ DownloadInfoRejected(r)
  \/ \E inf \in Infos : DownloadUnsupported(r, inf)
  \/ \E inf \in Infos : DownloadAudio(r, inf)
  \/ \E inf \in Infos : DownloadDirect(r, inf)
  \/ \E inf \in Infos, u \in Uniques : DownloadMerge(r, inf, u)
  \/ PipeFirstByte(r)
  \/ DirectPipeFinish(r)
  \/ DirectPipeError(r)
  \/ \E k \in {"video", "audio"} : DownloadOpen(r, k)
  \/ \E k \in {"video", "audio"} : DownloadFinish(r, k)
  \/ \E k \in {"video", "audio"} : DownloadWriteError(r, k)
  \/ \E k \in {"video", "audio"} : DownloadSourceError(r, k)
  \/ FfmpegWrite(r)
  \/ FfmpegEnd(r)
  \/ \E bad \in BadSets : FfmpegError(r, bad)
  \/ \E bad \in BadSets : MergedPipeFinish(r, bad)
  \/ \E bad \in BadSets : MergedPipeError(r, bad)

\* C19: a /download request never waits forever: as long as it has not ended
\* with a sent response or a finished (or failed) response stream, an
\* operation it waits for can still complete or signal its error to it.
C19_RequestTerminates ==
  \A r \in Req : route[r] = "/download" => Completed(r) \/ ENABLED Step(r)

\* C20: at most one response is started for a /download request: the
\* handler never sends a status and body twice, and never sends one on a
\* response into which a stream is or was piped.
C20_AtMostOneResponse ==
  \A r \in Req :
    route[r] = "/download"
      => /\ sendCount[r] <= 1
         /\ pipe[r] # "none" => sendCount[r] = 0
         /\ sendCount[r] = 1 => status[r] \in {400, 500}

\* C20 witness: a merge request answered 500 for the first failed download,
\* whose other download failed afterwards, and a request whose stream failed
\* after it had started to flow.
C20_Witness ==
  \E r1, r2 \in Req :
    /\ dl[r1].video = "errWrite" /\ dl[r1].audio = "errOpen"
    /\ sendCount[r1] = 1 /\ status[r1] = 500
    /\ route[r2] = "/download" /\ pipe[r2] = "failed" /\ status[r2] = 200

====
